---- MODULE Spec2Model ----
(***************************************************************************)
(* Model of the multi-provider agent layer of module_creator:              *)
(*   frontend/src/services/agents/BaseAgent.ts    (BaseAgent, retry)       *)
(*   frontend/src/services/agents/OpenAIAgent.ts  (OpenAIAgent, and the    *)
(*                                    OllamaAgent class that follows it)   *)
(*   frontend/src/services/agents/AgentFactory.ts (AgentFactory)           *)
(*   frontend/src/services/agents/types.ts        (the value types)        *)
(* and of the admin client that sits beside it:                            *)
(*   frontend/src/services/system.ts              (fetchWithRetry)         *)
(*   frontend/src/hooks/useDebugPanel.ts          (AdminAuthProvider)      *)
(*   frontend/src/components/ProtectedAdminRoute.tsx                       *)
(*                                                                         *)
(* The specifications share the variables:                                 *)
(*   Spec           an agent is created and process() calls run on it;     *)
(*   SpecRetry      one run of BaseAgent.retry around any operation;       *)
(*   SpecBuild      buildMessages / buildPrompt on profiles and requests;  *)
(*   SpecMethods    getConfig / getState / validateRequest and callers;    *)
(*   SpecOllama     validateRequest and one process() on an OllamaAgent;   *)
(*   SpecTimeout    one process() call under different config.timeout;     *)
(*   SpecFetchRetry one call of fetchWithRetry;                            *)
(*   SpecAuth       AdminAuthProvider's login, logout, checkAdminStatus.   *)
(*                                                                         *)
(* JavaScript strings are TLA+ strings.  A value that may be a string,     *)
(* undefined or null is a tagged record (Str, Undefined, Null).  Elapsed   *)
(* time (processingTime) is not modelled: no clock is.                     *)
(***************************************************************************)
EXTENDS Integers, Sequences, FiniteSets, TLC

VARIABLES
    agentKind,   \* "none" before construction, else "openai" | "ollama"
    config,      \* BaseAgent.config
    apiKey,      \* OpenAIAgent.apiKey ("" when the instance has no such field)
    baseUrl,     \* OpenAIAgent.baseUrl / OllamaAgent.baseUrl
    state,       \* BaseAgent.state
    createError, \* message of the error the last createAgent threw, "" if none
    givenType,   \* the type the last createAgent was called with, "" before
    givenConfig, \* the config the last createAgent was called with, as it was then
    calls,       \* the process() calls: call id -> frame of the async function
    rPc,         \* retry(): position
    rMax,        \* retry(): maxRetries
    rI,          \* retry(): i
    rLastError,  \* retry(): lastError
    rValue,      \* retry(): the value returned
    rLog,        \* retry(): the operation's invocations and the delays waited
    buildReq,    \* the request the payload builder was applied to
    messages,    \* what buildMessages returned
    promptParts, \* the pieces buildPrompt appended, in order
    prompt,      \* what buildPrompt returned
    gotConfig,   \* the object a caller holds from getConfig()
    gotState,    \* the object a caller holds from getState()
    validated,   \* the last validateRequest call: implementation, request, outcome
    fw,          \* fetchWithRetry: position, retries left, attempts and delays so far
    auth,        \* AdminAuthProvider: isAdmin, isAuthenticated, isLoading, error
    adminToken,  \* localStorage['adminToken']
    ops,         \* AdminAuthProvider: the checkAdminStatus / login calls in flight
    mounted,     \* AdminAuthProvider: whether the mount effect has run
    route        \* what ProtectedAdminRoute rendered from the provider's state

agentVars == <<agentKind, config, apiKey, baseUrl, state, createError, givenType, givenConfig>>
retryVars == <<rPc, rMax, rI, rLastError, rValue, rLog>>
buildVars == <<buildReq, messages, promptParts, prompt>>
methodVars == <<gotConfig, gotState, validated>>
sysVars == <<fw>>
authVars == <<auth, adminToken, ops, mounted, route>>
vars == <<agentVars, calls, retryVars, buildVars, methodVars, sysVars, authVars>>

-----------------------------------------------------------------------------
(* Bounds *)

MaxCalls == 2
MaxRetries == 3
MaxContexts == 4
MaxPriority == 2
MaxAuthOps == 2

Calls == 1..MaxCalls
AuthOps == 1..MaxAuthOps

-----------------------------------------------------------------------------
(* JavaScript values *)

Undefined == [type |-> "undefined", str |-> ""]
Null == [type |-> "null", str |-> ""]
Str(s) == [type |-> "string", str |-> s]

\* !v is false
Truthy(v) == v.type = "string" /\ v.str # ""

\* a thrown value: an Error object with a message, or anything else
Error(msg) == [isError |-> TRUE, message |-> msg]
NonError == [isError |-> FALSE, message |-> "rejected"]
NoThrow == [isError |-> FALSE, message |-> ""]

-----------------------------------------------------------------------------
(* types.ts *)

AgentContext(id, text, priority, active) ==
    [context_id |-> id, context |-> text, priority |-> priority, is_active |-> active]

ModelConfig(provider, key, url) ==
    [name |-> "model", provider |-> provider, model |-> "llama2",
     max_tokens |-> 2000, temperature |-> "0.7", api_key |-> key, base_url |-> url]

AgentConfig(model, contexts, maxRetries) ==
    [name |-> "agent", description |-> "an agent", model |-> model,
     contexts |-> contexts, maxRetries |-> maxRetries, timeout |-> 30000]

\* AgentRequest; options are read by no agent
AgentRequest(p, ctx) == [prompt |-> p, context |-> ctx]

AgentResponse(success, response, error) ==
    [success |-> success, response |-> response, error |-> error]

(* The inputs *)

\* the text of the i-th fragment of a profile
FragmentText(i) == "F" \o ToString(i)

\* every contexts list of n fragments: any priorities, any active flags
RECURSIVE ContextLists(_)
ContextLists(n) ==
    IF n = 0 THEN {<<>>}
    ELSE {Append(l, AgentContext("c" \o ToString(n), FragmentText(n), p, a)) :
             l \in ContextLists(n - 1), p \in 1..MaxPriority, a \in BOOLEAN}

AllContextLists == UNION {ContextLists(n) : n \in 0..MaxContexts}

\* the profile of the spec's scenarios: one active fragment, one inactive
ScenarioContexts ==
    <<AgentContext("c1", "Ignore me", 2, FALSE),
      AgentContext("c2", "You are a helpful assistant", 1, TRUE)>>

Requests == {AgentRequest(p, c) : p \in {"", "Say hi"}, c \in {Undefined, Str("extra")}}

NoRequest == AgentRequest("", Undefined)

\* the requests the payload builders are applied to: also context: ''
BuildRequests == Requests \cup {AgentRequest(p, Str("")) : p \in {"", "Say hi"}}


\* the profiles agents are created from under Spec
Profiles ==
    {AgentConfig(ModelConfig("openai", "sk-test", ""), ScenarioContexts, MaxRetries),
     AgentConfig(ModelConfig("openai", "", ""), ScenarioContexts, 1),
     AgentConfig(ModelConfig("ollama", "", "http://ollama:11434"), ScenarioContexts, 1),
     AgentConfig(ModelConfig("ollama", "", ""), ScenarioContexts, MaxRetries)}

NoConfig == AgentConfig(ModelConfig("", "", ""), <<>>, 0)

-----------------------------------------------------------------------------
(* The network: what fetch() and response.json() can settle to *)

NoFetch == [kind |-> "none", thrown |-> NoThrow, ok |-> FALSE, statusText |-> ""]
FetchRejects(e) == [kind |-> "reject", thrown |-> e, ok |-> FALSE, statusText |-> ""]
FetchResponds(ok, text) == [kind |-> "response", thrown |-> NoThrow, ok |-> ok, statusText |-> text]

FetchOutcomes ==
    {FetchRejects(Error("Failed to fetch")), FetchRejects(Error("")), FetchRejects(NonError),
     FetchResponds(FALSE, "Bad Request"), FetchResponds(FALSE, ""), FetchResponds(TRUE, "OK")}

\* a parsed body: null, or an object with or without choices / response
Choice(hasMessage, content) == [hasMessage |-> hasMessage, content |-> content]
Body(isNull, hasChoices, choices, response) ==
    [isNull |-> isNull, hasChoices |-> hasChoices, choices |-> choices, response |-> response]

Bodies ==
    {Body(TRUE, FALSE, <<>>, Undefined),                                  \* null
     Body(FALSE, FALSE, <<>>, Undefined),                                 \* {}
     Body(FALSE, TRUE, <<>>, Undefined),                                  \* {choices: []}
     Body(FALSE, TRUE, <<Choice(FALSE, Undefined)>>, Undefined),          \* {choices: [{}]}
     Body(FALSE, TRUE, <<Choice(TRUE, Undefined)>>, Undefined),           \* {choices: [{message: {}}]}
     Body(FALSE, TRUE, <<Choice(TRUE, Str("Hello!"))>>, Undefined),
     Body(FALSE, FALSE, <<>>, Str("Hi there"))}                           \* {response: "Hi there"}

NoBody == Body(TRUE, FALSE, <<>>, Undefined)

NoJson == [kind |-> "none", thrown |-> NoThrow, body |-> NoBody]
JsonRejects(e) == [kind |-> "reject", thrown |-> e, body |-> NoBody]
JsonResolves(b) == [kind |-> "body", thrown |-> NoThrow, body |-> b]

JsonOutcomes == {JsonRejects(Error("Unexpected token < in JSON"))} \cup {JsonResolves(b) : b \in Bodies}

-----------------------------------------------------------------------------
(* BaseAgent.ts *)

\* constructor: this.state
InitialState == [status |-> "idle"]

\* validateRequest: the value thrown, NoThrow when it returns true
BaseValidateRequest(request) ==
    IF request.prompt = "" THEN Error("Prompt is required") ELSE NoThrow

\* a catch block that reports the same message for every thrown value
ErrorMessageGeneric(error) == "Unknown error occurred"

\* the message an envelope reports for a thrown value
ErrorMessage(error) == IF error.isError THEN error.message ELSE "Unknown error occurred"

handleError(error) == AgentResponse(FALSE, Str(""), Str(ErrorMessage(error)))

handleSuccess(response) == AgentResponse(TRUE, response, Null)

\* getState / getConfig: a copy of the top-level fields
getState == [f \in DOMAIN state |-> state[f]]

\* a getConfig that reports the agent's class as the provider
getConfigTagged == [config EXCEPT !.model.provider = agentKind]

getConfig == [f \in DOMAIN config |-> config[f]]

\* The object a caller gets from getConfig(): { ...this.config } copies the own
\* properties, so a property that holds an object (model, contexts) holds the
\* very same object in the copy.  own is the copy's value when it was taken.
ConfigHandle ==
    [taken |-> TRUE, own |-> getConfig, sharesModel |-> TRUE, sharesContexts |-> TRUE]

\* The object a caller gets from getState(): { ...this.state }; lastResponse is
\* the only property that can hold an object.
StateHandle ==
    [taken |-> TRUE, own |-> getState, sharesLastResponse |-> "lastResponse" \in DOMAIN state]

NoConfigHandle ==
    [taken |-> FALSE, own |-> NoConfig, sharesModel |-> FALSE, sharesContexts |-> FALSE]

NoStateHandle == [taken |-> FALSE, own |-> InitialState, sharesLastResponse |-> FALSE]

\* what the caller reads through the object it holds
GotModel == IF gotConfig.sharesModel THEN config.model ELSE gotConfig.own.model
GotContexts == IF gotConfig.sharesContexts THEN config.contexts ELSE gotConfig.own.contexts

-----------------------------------------------------------------------------
(* Payload assembly: OpenAIAgent.buildMessages, OllamaAgent.buildPrompt *)

ChatMessage(role, content) == [role |-> role, content |-> content]

\* Array.prototype.join
RECURSIVE Join(_, _)
Join(strs, sep) ==
    IF Len(strs) = 0 THEN ""
    ELSE IF Len(strs) = 1 THEN strs[1]
    ELSE strs[1] \o sep \o Join(Tail(strs), sep)

\* the strings appended one after the other
RECURSIVE Concat(_)
Concat(strs) == IF Len(strs) = 0 THEN "" ELSE strs[1] \o Concat(Tail(strs))

\* contexts.map(c => c.context)
ContextTexts(contexts) == [i \in 1..Len(contexts) |-> contexts[i].context]

\* buildMessages that leaves out the profile's system message when the profile
\* has no fragments
buildMessagesSkipEmpty(cfg, request) ==
    LET system == IF Len(cfg.contexts) = 0 THEN <<>>
                  ELSE <<ChatMessage("system", Join(ContextTexts(cfg.contexts), "\n"))>>
        adhoc == IF Truthy(request.context)
                 THEN <<ChatMessage("system", request.context.str)>>
                 ELSE <<>>
    IN system \o adhoc \o <<ChatMessage("user", request.prompt)>>

\* buildMessages with the user message pushed before the request's context
buildMessagesPromptFirst(cfg, request) ==
    LET system == <<ChatMessage("system", Join(ContextTexts(cfg.contexts), "\n"))>>
        adhoc == IF Truthy(request.context)
                 THEN <<ChatMessage("system", request.context.str)>>
                 ELSE <<>>
    IN system \o <<ChatMessage("user", request.prompt)>> \o adhoc

buildMessages(cfg, request) ==
    LET system == <<ChatMessage("system", Join(ContextTexts(cfg.contexts), "\n"))>>
        adhoc == IF Truthy(request.context)
                 THEN <<ChatMessage("system", request.context.str)>>
                 ELSE <<>>
    IN system \o adhoc \o <<ChatMessage("user", request.prompt)>>

\* ComparePriority with the operands swapped
ComparePriorityDescending(a, b) == b.priority - a.priority

\* the comparator of the sort: a.priority - b.priority
ComparePriority(a, b) == a.priority - b.priority

\* c put into a sorted list, after every element that does not compare greater
RECURSIVE InsertSorted(_, _)
InsertSorted(sorted, c) ==
    IF Len(sorted) = 0 THEN <<c>>
    ELSE IF ComparePriority(sorted[1], c) > 0 THEN <<c>> \o sorted
    ELSE <<sorted[1]>> \o InsertSorted(Tail(sorted), c)

\* [...contexts].sort(compare): Array.prototype.sort, which is stable
RECURSIVE SortContexts(_)
SortContexts(contexts) ==
    IF Len(contexts) = 0 THEN <<>>
    ELSE InsertSorted(SortContexts(SubSeq(contexts, 1, Len(contexts) - 1)),
                      contexts[Len(contexts)])

IsActive(c) == c.is_active

\* the strings buildPrompt appends to prompt, in order
buildPromptParts(cfg, request) ==
    LET active == SelectSeq(SortContexts(cfg.contexts), IsActive)
    IN [i \in 1..Len(active) |-> active[i].context \o "\n\n"]
         \o <<"User: " \o request.prompt \o "\n\n">>

buildPrompt(cfg, request) == Concat(buildPromptParts(cfg, request))

\* buildPrompt sorting this.config.contexts itself, with no copy
ConfigAfterBuildPromptInPlace(cfg) == [cfg EXCEPT !.contexts = SortContexts(@)]

\* this.config after buildPrompt: the sort is of a copy, [...this.config.contexts]
ConfigAfterBuildPrompt(cfg) == cfg

\* this.config after buildMessages: map and join change nothing
ConfigAfterBuildMessages(cfg) == cfg

-----------------------------------------------------------------------------
(* The frame of one process() call *)

NoPayload ==
    [url |-> "", authorization |-> "", model |-> "", messages |-> <<>>, prompt |-> ""]

NoResult == AgentResponse(FALSE, Undefined, Undefined)

\* pc: "none" (not called), "awaitValidate", "awaitFetch", "awaitJson",
\*     "returned" (the promise resolved to result), "rejected" (it rejected with thrown)
NoCall ==
    [pc |-> "none", request |-> NoRequest, validation |-> NoThrow, sent |-> NoPayload,
     fetches |-> 0, response |-> NoFetch, completion |-> NoJson, result |-> NoResult,
     thrown |-> NoThrow]

Returns(frame, result) == [frame EXCEPT !.pc = "returned", !.result = result]
Rejects(frame, error) == [frame EXCEPT !.pc = "rejected", !.thrown = error]

-----------------------------------------------------------------------------
(* OpenAIAgent *)

OpenAIUrl == "https://api.openai.com/v1/chat/completions"

OpenAIValidateRequest(request) ==
    IF request.prompt = "" THEN Error("Prompt is required")
    ELSE IF apiKey = "" THEN Error("OpenAI API key is required")
    ELSE NoThrow

\* OpenAICatch with a catch block that handles Error objects only
OpenAICatchErrorsOnly(frame, error) ==
    IF error.isError
    THEN Returns(frame, AgentResponse(FALSE, Str(""), Str(error.message)))
    ELSE Rejects(frame, error)

\* the catch block of process
OpenAICatch(frame, error) ==
    Returns(frame, AgentResponse(FALSE, Str(""), Str(ErrorMessage(error))))

\* the fetch of process: its url, headers and body
OpenAIFetch(frame) ==
    [frame EXCEPT !.pc = "awaitFetch",
                  !.fetches = @ + 1,
                  !.sent = [url |-> baseUrl, authorization |-> "Bearer " \o apiKey,
                            model |-> config.model.model,
                            messages |-> buildMessages(config, frame.request),
                            prompt |-> ""]]

\* completion.choices[0]?.message?.content
OpenAIFirstContent(body) ==
    IF Len(body.choices) = 0 THEN Undefined
    ELSE IF ~body.choices[1].hasMessage THEN Undefined
    ELSE body.choices[1].content

\* process, from the parsed completion to the return
OpenAIExtract(frame, body) ==
    IF body.isNull
    THEN OpenAICatch(frame, Error("Cannot read properties of null (reading 'choices')"))
    ELSE IF ~body.hasChoices
    THEN OpenAICatch(frame, Error("Cannot read properties of undefined (reading '0')"))
    ELSE LET content == OpenAIFirstContent(body)
         IN Returns(frame, AgentResponse(TRUE, IF Truthy(content) THEN content ELSE Str(""), Null))

-----------------------------------------------------------------------------
(* OllamaAgent *)

\* a constructor with no default address
OllamaNoDefaultUrl == ""

OllamaDefaultUrl == "http://localhost:11434"

\* a validateRequest that checks the base URL only
OllamaValidateRequestUrlOnly(request) ==
    IF config.model.base_url = "" THEN Error("Ollama base URL is required") ELSE NoThrow

OllamaValidateRequest(request) ==
    IF request.prompt = "" THEN Error("Prompt is required")
    ELSE IF config.model.base_url = "" THEN Error("Ollama base URL is required")
    ELSE NoThrow

\* the catch block of process
OllamaCatch(frame, error) ==
    Returns(frame, AgentResponse(FALSE, Str(""), Str(ErrorMessage(error))))

\* a fetch raced against a timer of config.timeout ms, which a timeout of 0 loses
OllamaFetchDeadline(frame) ==
    [frame EXCEPT !.pc = IF config.timeout = 0 THEN "returned" ELSE "awaitFetch",
                  !.fetches = @ + 1,
                  !.result = IF config.timeout = 0
                             THEN AgentResponse(FALSE, Str(""), Str("Request timed out"))
                             ELSE @,
                  !.sent = [url |-> baseUrl \o "/api/generate", authorization |-> "",
                            model |-> config.model.model,
                            messages |-> <<>>,
                            prompt |-> buildPrompt(config, frame.request)]]

\* the fetch of process
OllamaFetch(frame) ==
    [frame EXCEPT !.pc = "awaitFetch",
                  !.fetches = @ + 1,
                  !.sent = [url |-> baseUrl \o "/api/generate", authorization |-> "",
                            model |-> config.model.model,
                            messages |-> <<>>,
                            prompt |-> buildPrompt(config, frame.request)]]

\* process, from the parsed data to the return
OllamaExtract(frame, body) ==
    IF body.isNull
    THEN OllamaCatch(frame, Error("Cannot read properties of null (reading 'response')"))
    ELSE Returns(frame, AgentResponse(TRUE, body.response, Null))

-----------------------------------------------------------------------------
(* AgentFactory.createAgent and the constructors *)

AgentTypes == {"openai", "ollama", "claude"}

\* createAgent with a switch that has no default branch
CreateThrowsNoDefault(type, profile) ==
    IF type = "openai"
    THEN (IF profile.model.api_key = "" THEN "OpenAI API key is required" ELSE "")
    ELSE ""

\* createAgent with an OpenAIAgent constructor that does not look at api_key
CreateThrowsNoKeyCheck(type, profile) ==
    IF type \in {"openai", "ollama"} THEN "" ELSE "Unsupported agent type: " \o type

\* what the constructor reached by createAgent(type, profile) throws, "" if nothing
CreateThrows(type, profile) ==
    IF type = "openai"
    THEN (IF profile.model.api_key = "" THEN "OpenAI API key is required" ELSE "")
    ELSE IF type = "ollama" THEN ""
    ELSE "Unsupported agent type: " \o type

CreateAgent(type, profile) ==
    /\ agentKind = "none"
    /\ createError' = CreateThrows(type, profile)
    /\ givenType' = type
    /\ givenConfig' = profile
    /\ IF CreateThrows(type, profile) # ""
       THEN UNCHANGED <<agentKind, config, apiKey, baseUrl, state>>
       ELSE /\ agentKind' = type
            /\ config' = profile
            /\ state' = InitialState
            /\ apiKey' = IF type = "openai" THEN profile.model.api_key ELSE ""
            /\ baseUrl' = IF type = "openai" THEN OpenAIUrl
                          ELSE IF profile.model.base_url # "" THEN profile.model.base_url
                          ELSE OllamaDefaultUrl
    /\ UNCHANGED <<calls, retryVars, buildVars, sysVars, authVars, methodVars>>

-----------------------------------------------------------------------------
(* process(): one action per stretch between two awaits *)

\* calls are numbered in the order they are made
CanCall(c) ==
    /\ calls[c].pc = "none"
    /\ c > 1 => calls[c - 1].pc # "none"

\* a process that keeps its result in a field of the agent: a call that returns
\* replaces what the calls that returned before it hold
SetCallSharedResult(c, frame) ==
    /\ calls' = [d \in Calls |->
                    IF d = c THEN frame
                    ELSE IF frame.pc = "returned" /\ calls[d].pc = "returned"
                    THEN [calls[d] EXCEPT !.result = frame.result]
                    ELSE calls[d]]
    /\ UNCHANGED <<agentVars, retryVars, buildVars, sysVars, authVars, methodVars>>

SetCall(c, frame) ==
    /\ calls' = [calls EXCEPT ![c] = frame]
    /\ UNCHANGED <<agentVars, retryVars, buildVars, sysVars, authVars, methodVars>>

\* the same for a stretch that runs a payload builder, which reads this.config
SetCallBuilding(c, frame, cfg) ==
    /\ calls' = [calls EXCEPT ![c] = frame]
    /\ config' = cfg
    /\ UNCHANGED <<agentKind, apiKey, baseUrl, state, createError, givenType, givenConfig>>
    /\ UNCHANGED <<retryVars, buildVars, sysVars, authVars, methodVars>>

\* OpenAIAgent.process is called: validateRequest runs and is awaited
OpenAIProcess(c, request) ==
    /\ agentKind = "openai"
    /\ CanCall(c)
    /\ SetCall(c, [calls[c] EXCEPT !.pc = "awaitValidate", !.request = request,
                                   !.validation = OpenAIValidateRequest(request)])

\* the awaited validateRequest settles: into the catch, or on to the fetch
OpenAIValidated(c) ==
    /\ agentKind = "openai"
    /\ calls[c].pc = "awaitValidate"
    /\ IF calls[c].validation # NoThrow
       THEN SetCall(c, OpenAICatch(calls[c], calls[c].validation))
       ELSE SetCallBuilding(c, OpenAIFetch(calls[c]), ConfigAfterBuildMessages(config))

\* the awaited fetch settles
OpenAIFetchSettles(c, outcome) ==
    /\ agentKind = "openai"
    /\ calls[c].pc = "awaitFetch"
    /\ LET frame == [calls[c] EXCEPT !.response = outcome]
       IN SetCall(c, IF outcome.kind = "reject" THEN OpenAICatch(frame, outcome.thrown)
                     ELSE IF ~outcome.ok
                     THEN OpenAICatch(frame, Error("OpenAI API error: " \o outcome.statusText))
                     ELSE [frame EXCEPT !.pc = "awaitJson"])

\* the awaited response.json() settles
OpenAIJsonSettles(c, outcome) ==
    /\ agentKind = "openai"
    /\ calls[c].pc = "awaitJson"
    /\ LET frame == [calls[c] EXCEPT !.completion = outcome]
       IN SetCall(c, IF outcome.kind = "reject" THEN OpenAICatch(frame, outcome.thrown)
                     ELSE OpenAIExtract(frame, outcome.body))

\* OllamaAgent.process is called: the prompt is built and the fetch issued
OllamaProcess(c, request) ==
    /\ agentKind = "ollama"
    /\ CanCall(c)
    /\ SetCallBuilding(c, OllamaFetch([calls[c] EXCEPT !.request = request]),
                       ConfigAfterBuildPrompt(config))

OllamaFetchSettles(c, outcome) ==
    /\ agentKind = "ollama"
    /\ calls[c].pc = "awaitFetch"
    /\ LET frame == [calls[c] EXCEPT !.response = outcome]
       IN SetCall(c, IF outcome.kind = "reject" THEN OllamaCatch(frame, outcome.thrown)
                     ELSE IF ~outcome.ok
                     THEN OllamaCatch(frame, Error("Ollama API error: " \o outcome.statusText))
                     ELSE [frame EXCEPT !.pc = "awaitJson"])

OllamaJsonSettles(c, outcome) ==
    /\ agentKind = "ollama"
    /\ calls[c].pc = "awaitJson"
    /\ LET frame == [calls[c] EXCEPT !.completion = outcome]
       IN SetCall(c, IF outcome.kind = "reject" THEN OllamaCatch(frame, outcome.thrown)
                     ELSE OllamaExtract(frame, outcome.body))

-----------------------------------------------------------------------------
(* services/system.ts: fetchWithRetry *)

MAX_RETRIES == 3
RETRY_DELAY == 1000

\* localStorage.getItem('adminToken') inside a template literal
TokenText(token) == IF token.type = "string" THEN token.str ELSE token.type

\* what the fetch of one attempt settles to
FwRejects(e) == [kind |-> "reject", thrown |-> e, ok |-> FALSE, status |-> 0]
FwResponds(ok, status) == [kind |-> "response", thrown |-> NoThrow, ok |-> ok, status |-> status]

FwOutcomes ==
    {FwRejects(Error("Failed to fetch")), FwResponds(FALSE, 404), FwResponds(FALSE, 500),
     FwResponds(TRUE, 200)}

\* the log: an attempt as it settled, or a delay as it was set
FwAttempt(authorization, ok, error) ==
    [ev |-> "fetch", authorization |-> authorization, ok |-> ok, error |-> error, ms |-> 0]
FwDelay(ms) == [ev |-> "delay", authorization |-> "", ok |-> FALSE, error |-> NoThrow, ms |-> ms]

NoFw == [pc |-> "idle", given |-> 0, retries |-> 0, log |-> <<>>, thrown |-> NoThrow, status |-> 0]

\* the error of a failed attempt: what fetch threw, or the one thrown for !response.ok
FwError(outcome) ==
    IF outcome.kind = "reject" THEN outcome.thrown
    ELSE Error("HTTP error! status: " \o ToString(outcome.status))

\* a catch block that retries while retries >= 0
FwRetriesLeftInclusive(retries) == retries >= 0

\* the test of the catch block
FwRetriesLeft(retries) == retries > 0

\* fetchWithRetry(url, options, retries) is called; retries defaults to MAX_RETRIES
FetchWithRetry(useDefault, retries) ==
    /\ fw.pc = "idle"
    /\ LET r == IF useDefault THEN MAX_RETRIES ELSE retries
       IN fw' = [NoFw EXCEPT !.pc = "awaitFetch", !.given = r, !.retries = r]
    /\ UNCHANGED <<agentVars, calls, retryVars, buildVars, methodVars, authVars>>

\* the awaited fetch of the current attempt settles
FwFetchSettles(outcome) ==
    /\ fw.pc = "awaitFetch"
    /\ LET authorization == "Bearer " \o TokenText(adminToken)
       IN IF outcome.kind = "response" /\ outcome.ok
          THEN fw' = [fw EXCEPT !.pc = "returned", !.status = outcome.status,
                                !.log = Append(@, FwAttempt(authorization, TRUE, NoThrow))]
          ELSE IF FwRetriesLeft(fw.retries)
          THEN fw' = [fw EXCEPT !.pc = "delay",
                                !.log = @ \o <<FwAttempt(authorization, FALSE, FwError(outcome)),
                                               FwDelay(RETRY_DELAY)>>]
          ELSE fw' = [fw EXCEPT !.pc = "thrown", !.thrown = FwError(outcome),
                                !.log = Append(@, FwAttempt(authorization, FALSE, FwError(outcome)))]
    /\ UNCHANGED <<agentVars, calls, retryVars, buildVars, methodVars, authVars>>

\* the delay has passed: fetchWithRetry(url, options, retries - 1)
FwDelayElapses ==
    /\ fw.pc = "delay"
    /\ fw' = [fw EXCEPT !.pc = "awaitFetch", !.retries = @ - 1]
    /\ UNCHANGED <<agentVars, calls, retryVars, buildVars, methodVars, authVars>>

-----------------------------------------------------------------------------
(* AdminAuthProvider and ProtectedAdminRoute *)

\* the useState initial values
InitialAuth == [isAdmin |-> FALSE, isAuthenticated |-> FALSE, isLoading |-> TRUE, error |-> Null]

\* a route with its test inverted
ProtectedAdminRouteInverted(isAdmin, isAuthenticated) ==
    IF isAuthenticated /\ isAdmin THEN "Navigate:/admin/login" ELSE "children"

\* what ProtectedAdminRoute returns
ProtectedAdminRoute(isAdmin, isAuthenticated) ==
    IF ~isAuthenticated \/ ~isAdmin THEN "Navigate:/admin/login" ELSE "children"

\* the state setters of one synchronous stretch take effect together, and the
\* route is rendered again from the new state
Commit(newAuth) ==
    /\ auth' = newAuth
    /\ route' = ProtectedAdminRoute(newAuth.isAdmin, newAuth.isAuthenticated)

\* a checkAdminStatus / login call: kind is "check", "init" (the mount effect's
\* checkAdminStatus) or "login"; token is the one checkAdminStatus read; ok is
\* response.ok of the response awaited last; a finished call keeps what it returned
AuthOp(kind, pc, token, ok, returned) ==
    [kind |-> kind, pc |-> pc, token |-> token, ok |-> ok, returned |-> returned]

NoAuthOp == AuthOp("none", "none", Null, FALSE, "")

Finished(kind, returned) == AuthOp(kind, "done", Null, FALSE, returned)

\* a call takes the first slot that holds no call in flight
FreeOp(o) == ops[o].pc \in {"none", "done"}
CanStart(o) == FreeOp(o) /\ \A p \in AuthOps : p < o => ~FreeOp(p)

\* error instanceof Error ? error.message : fallback
MessageOr(error, fallback) == IF error.isError THEN error.message ELSE fallback

\* what a fetch of the provider settles to
AuthFetchOutcomes ==
    {FwRejects(Error("Failed to fetch")), FwResponds(FALSE, 401), FwResponds(TRUE, 200)}

\* response.json() of the verify endpoint: rejects, or a body with or without detail
VerifyBody(detail) == [kind |-> "body", thrown |-> NoThrow, detail |-> detail]
VerifyBodyRejects(e) == [kind |-> "reject", thrown |-> e, detail |-> Undefined]

VerifyBodies ==
    {VerifyBodyRejects(Error("Unexpected token < in JSON")),
     VerifyBody(Str("Invalid token")), VerifyBody(Undefined)}

\* response.text() of the login endpoint: rejects, or a text that is empty, is
\* not JSON, or parses to an object with or without access_token and detail
LoginText(kind, accessToken, detail) ==
    [kind |-> kind, thrown |-> NoThrow, access_token |-> accessToken, detail |-> detail]

LoginTexts ==
    {[kind |-> "reject", thrown |-> Error("Failed to fetch"),
      access_token |-> Undefined, detail |-> Undefined],
     LoginText("empty", Undefined, Undefined),
     LoginText("notJson", Undefined, Undefined),
     LoginText("object", Str("new"), Undefined),
     LoginText("object", Undefined, Str("Bad credentials")),
     LoginText("object", Undefined, Undefined)}

\* localStorage.setItem('adminToken', value): the value is stored as a string
Stored(value) == Str(TokenText(value))

\* a checkAdminStatus call ends; the mount effect then sets isLoading to false
EndCheck(o, returned, newAuth) ==
    /\ ops' = [ops EXCEPT ![o] = Finished(ops[o].kind, returned)]
    /\ Commit(IF ops[o].kind = "init" THEN [newAuth EXCEPT !.isLoading = FALSE] ELSE newAuth)

\* checkAdminStatus up to its first await, for the call in slot o
CheckStarts(o, kind) ==
    LET cleared == [auth EXCEPT !.error = Null]
    IN IF ~Truthy(adminToken)
       THEN /\ ops' = [ops EXCEPT ![o] = Finished(kind, "false")]
            /\ Commit([cleared EXCEPT !.isAdmin = FALSE, !.isAuthenticated = FALSE,
                                      !.isLoading = IF kind = "init" THEN FALSE ELSE @])
       ELSE /\ ops' = [ops EXCEPT ![o] = AuthOp(kind, "awaitVerify", adminToken, FALSE, "")]
            /\ Commit(cleared)

\* the mount effect: initializeAuth()
Mount ==
    /\ ~mounted
    /\ mounted' = TRUE
    /\ CheckStarts(1, "init")
    /\ UNCHANGED adminToken
    /\ UNCHANGED <<agentVars, calls, retryVars, buildVars, methodVars, sysVars>>

\* a consumer of the context calls checkAdminStatus()
CheckAdminStatus(o) ==
    /\ mounted
    /\ CanStart(o)
    /\ CheckStarts(o, "check")
    /\ UNCHANGED <<adminToken, mounted>>
    /\ UNCHANGED <<agentVars, calls, retryVars, buildVars, methodVars, sysVars>>

\* the awaited fetch of the verify endpoint settles
CheckVerifySettles(o, outcome) ==
    /\ ops[o].pc = "awaitVerify"
    /\ IF outcome.kind = "reject"
       THEN EndCheck(o, "false",
                     [auth EXCEPT !.error = Str(MessageOr(outcome.thrown, "Unknown error occurred"))])
       ELSE /\ ops' = [ops EXCEPT ![o].pc = "awaitJson", ![o].ok = outcome.ok]
            /\ UNCHANGED <<auth, route>>
    /\ UNCHANGED <<adminToken, mounted>>
    /\ UNCHANGED <<agentVars, calls, retryVars, buildVars, methodVars, sysVars>>

\* the awaited response.json() of the verify response settles
CheckJsonSettles(o, body) ==
    /\ ops[o].pc = "awaitJson"
    /\ IF body.kind = "reject"
       THEN /\ EndCheck(o, "false",
                        [auth EXCEPT !.error = Str(MessageOr(body.thrown, "Unknown error occurred"))])
            /\ UNCHANGED adminToken
       ELSE IF ops[o].ok
       THEN /\ EndCheck(o, "true", [auth EXCEPT !.isAdmin = TRUE, !.isAuthenticated = TRUE])
            /\ UNCHANGED adminToken
       ELSE /\ EndCheck(o, "false",
                        [auth EXCEPT !.isAdmin = FALSE, !.isAuthenticated = FALSE,
                                     !.error = IF Truthy(body.detail) THEN body.detail
                                               ELSE Str("Failed to verify admin status")])
            /\ adminToken' = Null
    /\ UNCHANGED mounted
    /\ UNCHANGED <<agentVars, calls, retryVars, buildVars, methodVars, sysVars>>

\* a login call ends in its outer catch block, then finally
LoginFails(o, message) ==
    /\ ops' = [ops EXCEPT ![o] = Finished("login", "false")]
    /\ Commit([auth EXCEPT !.error = Str(message), !.isLoading = FALSE])

\* login(username, password) up to the connection test's fetch
Login(o) ==
    /\ mounted
    /\ CanStart(o)
    /\ ops' = [ops EXCEPT ![o] = AuthOp("login", "awaitTest", Null, FALSE, "")]
    /\ Commit([auth EXCEPT !.isLoading = TRUE, !.error = Null])
    /\ UNCHANGED <<adminToken, mounted>>
    /\ UNCHANGED <<agentVars, calls, retryVars, buildVars, methodVars, sysVars>>

\* the awaited fetch of the connection test settles
LoginTestSettles(o, outcome) ==
    /\ ops[o].pc = "awaitTest"
    /\ IF outcome.kind = "reject"
       THEN LoginFails(o, "Cannot connect to backend server: "
                             \o MessageOr(outcome.thrown, "Failed to connect to backend"))
       ELSE /\ ops' = [ops EXCEPT ![o].pc = IF outcome.ok THEN "awaitLogin" ELSE "awaitTestText"]
            /\ UNCHANGED <<auth, route>>
    /\ UNCHANGED <<adminToken, mounted>>
    /\ UNCHANGED <<agentVars, calls, retryVars, buildVars, methodVars, sysVars>>

\* the awaited testResponse.text() of a failed connection test settles
LoginTestTextSettles(o, rejects) ==
    /\ ops[o].pc = "awaitTestText"
    /\ LoginFails(o, "Cannot connect to backend server: "
                        \o (IF rejects THEN "Failed to fetch"
                            ELSE "Backend connection test failed with status: 401"))
    /\ UNCHANGED <<adminToken, mounted>>
    /\ UNCHANGED <<agentVars, calls, retryVars, buildVars, methodVars, sysVars>>

\* the awaited fetch of the login endpoint settles
LoginFetchSettles(o, outcome) ==
    /\ ops[o].pc = "awaitLogin"
    /\ IF outcome.kind = "reject"
       THEN LoginFails(o, "Login request failed: " \o MessageOr(outcome.thrown, "Network error"))
       ELSE /\ ops' = [ops EXCEPT ![o].pc = "awaitText", ![o].ok = outcome.ok]
            /\ UNCHANGED <<auth, route>>
    /\ UNCHANGED <<adminToken, mounted>>
    /\ UNCHANGED <<agentVars, calls, retryVars, buildVars, methodVars, sysVars>>

\* the awaited response.text() of the login response settles
LoginTextSettles(o, text) ==
    /\ ops[o].pc = "awaitText"
    /\ IF text.kind # "object"
       THEN /\ LoginFails(o, "Invalid response from server")
            /\ UNCHANGED adminToken
       ELSE IF ops[o].ok
       THEN /\ adminToken' = Stored(text.access_token)
            /\ ops' = [ops EXCEPT ![o] = Finished("login", "true")]
            /\ Commit([auth EXCEPT !.isAdmin = TRUE, !.isAuthenticated = TRUE,
                                   !.isLoading = FALSE])
       ELSE /\ ops' = [ops EXCEPT ![o] = Finished("login", "false")]
            /\ Commit([auth EXCEPT !.isLoading = FALSE,
                                   !.error = IF Truthy(text.detail) THEN text.detail
                                             ELSE Str("Login failed")])
            /\ UNCHANGED adminToken
    /\ UNCHANGED mounted
    /\ UNCHANGED <<agentVars, calls, retryVars, buildVars, methodVars, sysVars>>

\* a logout that leaves isAdmin as it is
LogoutKeepsAdmin ==
    /\ mounted
    /\ adminToken' = Null
    /\ Commit([auth EXCEPT !.isAuthenticated = FALSE, !.error = Null])
    /\ UNCHANGED <<ops, mounted>>
    /\ UNCHANGED <<agentVars, calls, retryVars, buildVars, methodVars, sysVars>>

\* logout()
Logout ==
    /\ mounted
    /\ adminToken' = Null
    /\ Commit([auth EXCEPT !.isAdmin = FALSE, !.isAuthenticated = FALSE, !.error = Null])
    /\ UNCHANGED <<ops, mounted>>
    /\ UNCHANGED <<agentVars, calls, retryVars, buildVars, methodVars, sysVars>>

-----------------------------------------------------------------------------
(* Idle values of the parts a specification does not use *)

RetryIdle ==
    /\ rPc = "idle"
    /\ rMax = 0
    /\ rI = 0
    /\ rLastError = NoThrow
    /\ rValue = ""
    /\ rLog = <<>>

BuildIdle ==
    /\ buildReq = NoRequest
    /\ messages = <<>>
    /\ promptParts = <<>>
    /\ prompt = ""

MethodsIdle ==
    /\ gotConfig = NoConfigHandle
    /\ gotState = NoStateHandle
    /\ validated = [called |-> FALSE, impl |-> "", request |-> NoRequest, thrown |-> NoThrow]

SysIdle == fw = NoFw

\* the provider before its mount effect, with what localStorage holds
Unmounted(token) ==
    /\ auth = InitialAuth
    /\ adminToken = token
    /\ ops = [o \in AuthOps |-> NoAuthOp]
    /\ mounted = FALSE
    /\ route = ProtectedAdminRoute(InitialAuth.isAdmin, InitialAuth.isAuthenticated)

AuthIdle == Unmounted(Null)

NoAgent ==
    /\ agentKind = "none"
    /\ config = NoConfig
    /\ apiKey = ""
    /\ baseUrl = ""
    /\ state = InitialState
    /\ createError = ""
    /\ givenType = ""
    /\ givenConfig = NoConfig

-----------------------------------------------------------------------------
(* Spec: createAgent, then process() calls, which may overlap *)

Init ==
    /\ NoAgent
    /\ calls = [c \in Calls |-> NoCall]
    /\ RetryIdle
    /\ BuildIdle
    /\ MethodsIdle
    /\ SysIdle
    /\ AuthIdle

Next ==
    \/ \E type \in AgentTypes, profile \in Profiles : CreateAgent(type, profile)
    \/ \E c \in Calls, request \in Requests : OpenAIProcess(c, request)
    \/ \E c \in Calls : OpenAIValidated(c)
    \/ \E c \in Calls, outcome \in FetchOutcomes : OpenAIFetchSettles(c, outcome)
    \/ \E c \in Calls, outcome \in JsonOutcomes : OpenAIJsonSettles(c, outcome)
    \/ \E c \in Calls, request \in Requests : OllamaProcess(c, request)
    \/ \E c \in Calls, outcome \in FetchOutcomes : OllamaFetchSettles(c, outcome)
    \/ \E c \in Calls, outcome \in JsonOutcomes : OllamaJsonSettles(c, outcome)

Spec == Init /\ [][Next]_vars

-----------------------------------------------------------------------------
(* BaseAgent.retry: one action per stretch between two awaits *)

BackoffMs == 1000

\* let lastError = null
ThrownNull == [isError |-> FALSE, message |-> "null"]

\* what the operation can reject with, and resolve to
OperationErrors == {Error("E1"), Error("E2")}
OperationValues == {"v1", "v2"}

\* the log: an invocation of the operation as it settled, or a delay as it was set
Invoked(ok, value, error) == [ev |-> "op", ok |-> ok, value |-> value, error |-> error, ms |-> 0]
Delayed(ms) == [ev |-> "delay", ok |-> FALSE, value |-> "", error |-> NoThrow, ms |-> ms]

\* RetryDelayMs with a delay that does not grow
RetryDelayMsConstant(i) == BackoffMs

\* the delay after the failure of the attempt with index i
RetryDelayMs(i) == BackoffMs * (i + 1)

\* whether a delay follows the failure of the attempt with index i
RetryWaits(i, maxRetries) == i < maxRetries - 1

\* RetryCaught keeping the first error caught
RetryCaughtFirst(lastError, error) == IF lastError = ThrownNull THEN error ELSE lastError

\* lastError after the catch of error
RetryCaught(lastError, error) == error

\* a loop that tests its condition after the first attempt only
RetryLoopAtLeastOnce(i) ==
    /\ rI' = i
    /\ rPc' = IF i = 0 \/ i < rMax' THEN "awaitOp" ELSE "thrown"

\* the head of the for loop at index i: the next attempt, or throw lastError
RetryLoop(i) ==
    /\ rI' = i
    /\ rPc' = IF i < rMax' THEN "awaitOp" ELSE "thrown"

\* retry(operation, maxRetries) is called; maxRetries defaults to config.maxRetries
Retry(useDefault, maxRetries) ==
    /\ rPc = "idle"
    /\ rMax' = IF useDefault THEN config.maxRetries ELSE maxRetries
    /\ rLastError' = ThrownNull
    /\ RetryLoop(0)
    /\ UNCHANGED <<rValue, rLog, agentVars, calls, buildVars, sysVars, authVars, methodVars>>

\* the awaited operation resolves: retry returns its value
OperationResolves(value) ==
    /\ rPc = "awaitOp"
    /\ rValue' = value
    /\ rPc' = "returned"
    /\ rLog' = Append(rLog, Invoked(TRUE, value, NoThrow))
    /\ UNCHANGED <<rMax, rI, rLastError, agentVars, calls, buildVars, sysVars, authVars, methodVars>>

\* the awaited operation rejects: the catch block
OperationRejects(error) ==
    /\ rPc = "awaitOp"
    /\ rLastError' = RetryCaught(rLastError, error)
    /\ UNCHANGED rMax
    /\ IF RetryWaits(rI, rMax)
       THEN /\ rLog' = rLog \o <<Invoked(FALSE, "", error), Delayed(RetryDelayMs(rI))>>
            /\ rPc' = "delay"
            /\ UNCHANGED rI
       ELSE /\ rLog' = Append(rLog, Invoked(FALSE, "", error))
            /\ RetryLoop(rI + 1)
    /\ UNCHANGED <<rValue, agentVars, calls, buildVars, sysVars, authVars, methodVars>>

\* the timer of the delay fires: the next round of the loop
DelayElapses ==
    /\ rPc = "delay"
    /\ UNCHANGED rMax
    /\ RetryLoop(rI + 1)
    /\ UNCHANGED <<rLastError, rValue, rLog, agentVars, calls, buildVars, sysVars, authVars, methodVars>>

\* an agent as its constructor leaves it (for the specifications that start with one)
Constructed(type, profile) ==
    /\ agentKind = type
    /\ config = profile
    /\ state = InitialState
    /\ apiKey = (IF type = "openai" THEN profile.model.api_key ELSE "")
    /\ baseUrl = (IF type = "openai" THEN OpenAIUrl
                  ELSE IF profile.model.base_url # "" THEN profile.model.base_url
                  ELSE OllamaDefaultUrl)
    /\ createError = ""
    /\ givenType = type
    /\ givenConfig = profile

RetryArgs == (-1)..MaxRetries

InitRetry ==
    /\ \E profile \in Profiles : Constructed("ollama", profile)
    /\ calls = [c \in Calls |-> NoCall]
    /\ RetryIdle
    /\ BuildIdle
    /\ MethodsIdle
    /\ SysIdle
    /\ AuthIdle

NextRetry ==
    \/ \E useDefault \in BOOLEAN, maxRetries \in RetryArgs : Retry(useDefault, maxRetries)
    \/ \E value \in OperationValues : OperationResolves(value)
    \/ \E error \in OperationErrors : OperationRejects(error)
    \/ DelayElapses

SpecRetry == InitRetry /\ [][NextRetry]_vars

-----------------------------------------------------------------------------
(* SpecBuild: the payload builders applied to every profile and request *)

NotBuilt == messages = <<>> /\ promptParts = <<>>

\* OpenAIAgent.buildMessages(request)
BuildMessages(request) ==
    /\ agentKind = "openai"
    /\ NotBuilt
    /\ buildReq' = request
    /\ messages' = buildMessages(config, request)
    /\ UNCHANGED <<promptParts, prompt, agentVars, calls, retryVars, methodVars, sysVars, authVars>>

\* OllamaAgent.buildPrompt(request)
BuildPrompt(request) ==
    /\ agentKind = "ollama"
    /\ NotBuilt
    /\ buildReq' = request
    /\ promptParts' = buildPromptParts(config, request)
    /\ prompt' = buildPrompt(config, request)
    /\ UNCHANGED <<messages, agentVars, calls, retryVars, methodVars, sysVars, authVars>>

InitBuild ==
    /\ \E type \in {"openai", "ollama"}, contexts \in AllContextLists :
          Constructed(type, AgentConfig(ModelConfig(type, "sk-test", ""), contexts, 1))
    /\ calls = [c \in Calls |-> NoCall]
    /\ RetryIdle
    /\ BuildIdle
    /\ MethodsIdle
    /\ SysIdle
    /\ AuthIdle

NextBuild ==
    \/ \E request \in BuildRequests : BuildMessages(request)
    \/ \E request \in BuildRequests : BuildPrompt(request)

SpecBuild == InitBuild /\ [][NextBuild]_vars

-----------------------------------------------------------------------------
(* SpecMethods: getConfig, getState and validateRequest called on an agent, *)
(* and a caller writing to the objects the two getters returned             *)

\* what the caller pushes and writes
PushedContext == AgentContext("pushed", "Pushed", 1, TRUE)
EditedText == "edited"

KeepAgent == UNCHANGED <<agentKind, apiKey, baseUrl, state, createError, givenType, givenConfig>>

\* const returned = agent.getConfig()
GetConfig ==
    /\ agentKind # "none"
    /\ gotConfig' = ConfigHandle
    /\ UNCHANGED <<gotState, validated, agentVars, calls, retryVars, buildVars, sysVars, authVars>>

\* const returned = agent.getState()
GetState ==
    /\ agentKind # "none"
    /\ gotState' = StateHandle
    /\ UNCHANGED <<gotConfig, validated, agentVars, calls, retryVars, buildVars, sysVars, authVars>>

\* returned.maxRetries = 0: a property of the copy itself
EditGotMaxRetries ==
    /\ gotConfig.taken
    /\ gotConfig.own.maxRetries # 0
    /\ gotConfig' = [gotConfig EXCEPT !.own.maxRetries = 0]
    /\ UNCHANGED <<gotState, validated, agentVars, calls, retryVars, buildVars, sysVars, authVars>>

\* returned.model.api_key = 'edited': a write to the object returned.model is
EditGotApiKey ==
    /\ gotConfig.taken
    /\ GotModel.api_key # EditedText
    /\ IF gotConfig.sharesModel
       THEN /\ config' = [config EXCEPT !.model.api_key = EditedText]
            /\ UNCHANGED gotConfig
       ELSE /\ gotConfig' = [gotConfig EXCEPT !.own.model.api_key = EditedText]
            /\ UNCHANGED config
    /\ KeepAgent
    /\ UNCHANGED <<gotState, validated, calls, retryVars, buildVars, sysVars, authVars>>

\* returned.contexts.push(fragment)
PushGotContexts ==
    /\ gotConfig.taken
    /\ Len(GotContexts) < MaxContexts
    /\ IF gotConfig.sharesContexts
       THEN /\ config' = [config EXCEPT !.contexts = Append(@, PushedContext)]
            /\ UNCHANGED gotConfig
       ELSE /\ gotConfig' = [gotConfig EXCEPT !.own.contexts = Append(@, PushedContext)]
            /\ UNCHANGED config
    /\ KeepAgent
    /\ UNCHANGED <<gotState, validated, calls, retryVars, buildVars, sysVars, authVars>>

\* returned.contexts[0].context = 'edited'
EditGotContext ==
    /\ gotConfig.taken
    /\ Len(GotContexts) > 0
    /\ GotContexts[1].context # EditedText
    /\ IF gotConfig.sharesContexts
       THEN /\ config' = [config EXCEPT !.contexts[1].context = EditedText]
            /\ UNCHANGED gotConfig
       ELSE /\ gotConfig' = [gotConfig EXCEPT !.own.contexts[1].context = EditedText]
            /\ UNCHANGED config
    /\ KeepAgent
    /\ UNCHANGED <<gotState, validated, calls, retryVars, buildVars, sysVars, authVars>>

\* returned.status = 'edited': a property of the copy itself
EditGotStatus ==
    /\ gotState.taken
    /\ gotState.own.status # EditedText
    /\ gotState' = [gotState EXCEPT !.own.status = EditedText]
    /\ UNCHANGED <<gotConfig, validated, agentVars, calls, retryVars, buildVars, sysVars, authVars>>

\* the implementations of validateRequest checked on an agent of this kind: its
\* class's override, and BaseAgent's, which a provider without an override runs
Implementations == {"base", agentKind}

ValidateRequestOf(impl, request) ==
    IF impl = "openai" THEN OpenAIValidateRequest(request)
    ELSE IF impl = "ollama" THEN OllamaValidateRequest(request)
    ELSE BaseValidateRequest(request)

\* await this.validateRequest(request)
ValidateRequest(impl, request) ==
    /\ agentKind # "none"
    /\ impl \in Implementations
    /\ validated' = [called |-> TRUE, impl |-> impl, request |-> request,
                     thrown |-> ValidateRequestOf(impl, request)]
    /\ UNCHANGED <<gotConfig, gotState, agentVars, calls, retryVars, buildVars, sysVars, authVars>>

InitMethods ==
    /\ \E type \in {"openai", "ollama"}, profile \in Profiles :
          /\ CreateThrows(type, profile) = ""
          /\ Constructed(type, profile)
    /\ calls = [c \in Calls |-> NoCall]
    /\ RetryIdle
    /\ BuildIdle
    /\ MethodsIdle
    /\ SysIdle
    /\ AuthIdle

NextMethods ==
    \/ GetConfig
    \/ GetState
    \/ EditGotMaxRetries
    \/ EditGotApiKey
    \/ PushGotContexts
    \/ EditGotContext
    \/ EditGotStatus
    \/ \E impl \in {"base", "openai", "ollama"}, request \in Requests : ValidateRequest(impl, request)

SpecMethods == InitMethods /\ [][NextMethods]_vars

-----------------------------------------------------------------------------
(* SpecOllama: validateRequest and one process() call on an OllamaAgent *)

InitOllama ==
    /\ \E profile \in Profiles : Constructed("ollama", profile)
    /\ calls = [c \in Calls |-> NoCall]
    /\ RetryIdle
    /\ BuildIdle
    /\ MethodsIdle
    /\ SysIdle
    /\ AuthIdle

NextOllama ==
    \/ \E impl \in {"base", "ollama"}, request \in Requests : ValidateRequest(impl, request)
    \/ \E request \in Requests : OllamaProcess(1, request)
    \/ \E outcome \in FetchOutcomes : OllamaFetchSettles(1, outcome)
    \/ \E outcome \in JsonOutcomes : OllamaJsonSettles(1, outcome)

SpecOllama == InitOllama /\ [][NextOllama]_vars

-----------------------------------------------------------------------------
(* SpecTimeout: one process() call on agents whose profiles differ in timeout *)

\* values of config.timeout, in ms
Timeouts == {0, 1, 30000}

InitTimeout ==
    /\ \E type \in {"openai", "ollama"}, profile \in Profiles, t \in Timeouts :
          /\ CreateThrows(type, profile) = ""
          /\ Constructed(type, [profile EXCEPT !.timeout = t])
    /\ calls = [c \in Calls |-> NoCall]
    /\ RetryIdle
    /\ BuildIdle
    /\ MethodsIdle
    /\ SysIdle
    /\ AuthIdle

NextTimeout ==
    \/ \E request \in Requests : OpenAIProcess(1, request)
    \/ OpenAIValidated(1)
    \/ \E outcome \in FetchOutcomes : OpenAIFetchSettles(1, outcome)
    \/ \E outcome \in JsonOutcomes : OpenAIJsonSettles(1, outcome)
    \/ \E request \in Requests : OllamaProcess(1, request)
    \/ \E outcome \in FetchOutcomes : OllamaFetchSettles(1, outcome)
    \/ \E outcome \in JsonOutcomes : OllamaJsonSettles(1, outcome)

SpecTimeout == InitTimeout /\ [][NextTimeout]_vars

-----------------------------------------------------------------------------
(* SpecFetchRetry: one call of fetchWithRetry *)

FwRetryArgs == (-1)..MaxRetries

InitFetchRetry ==
    /\ NoAgent
    /\ calls = [c \in Calls |-> NoCall]
    /\ RetryIdle
    /\ BuildIdle
    /\ MethodsIdle
    /\ SysIdle
    /\ \E token \in {Null, Str("stored")} : Unmounted(token)

NextFetchRetry ==
    \/ \E useDefault \in BOOLEAN, retries \in FwRetryArgs : FetchWithRetry(useDefault, retries)
    \/ \E outcome \in FwOutcomes : FwFetchSettles(outcome)
    \/ FwDelayElapses

SpecFetchRetry == InitFetchRetry /\ [][NextFetchRetry]_vars

-----------------------------------------------------------------------------
(* SpecAuth: AdminAuthProvider is mounted; login, logout and checkAdminStatus *)
(* are called in any order, at most MaxAuthOps calls being in flight at once  *)

InitAuth ==
    /\ NoAgent
    /\ calls = [c \in Calls |-> NoCall]
    /\ RetryIdle
    /\ BuildIdle
    /\ MethodsIdle
    /\ SysIdle
    /\ \E token \in {Null, Str("stored")} : Unmounted(token)

NextAuth ==
    \/ Mount
    \/ \E o \in AuthOps : CheckAdminStatus(o)
    \/ \E o \in AuthOps, outcome \in AuthFetchOutcomes : CheckVerifySettles(o, outcome)
    \/ \E o \in AuthOps, body \in VerifyBodies : CheckJsonSettles(o, body)
    \/ \E o \in AuthOps : Login(o)
    \/ \E o \in AuthOps, outcome \in AuthFetchOutcomes : LoginTestSettles(o, outcome)
    \/ \E o \in AuthOps, rejects \in BOOLEAN : LoginTestTextSettles(o, rejects)
    \/ \E o \in AuthOps, outcome \in AuthFetchOutcomes : LoginFetchSettles(o, outcome)
    \/ \E o \in AuthOps, text \in LoginTexts : LoginTextSettles(o, text)
    \/ Logout

SpecAuth == InitAuth /\ [][NextAuth]_vars

-----------------------------------------------------------------------------
(* Claims about process(), checked under Spec *)

Returned(c) == calls[c].pc = "returned"
InFlight(c) == calls[c].pc \in {"awaitValidate", "awaitFetch", "awaitJson"}

\* the fetch of call c settled and failed: it rejected, or the status was not ok
NetworkFailed(c) ==
    \/ calls[c].response.kind = "reject"
    \/ calls[c].response.kind = "response" /\ ~calls[c].response.ok

\* C1: for both agents and every request and network outcome, the promise
\* process() returns never rejects: a call that has ended has resolved to a result.
C1_ProcessNeverRejects ==
    \A c \in Calls :
        /\ calls[c].pc # "rejected"
        /\ Returned(c) => calls[c].result # NoResult

\* C1 witness: calls have returned after a fetch that rejected with a value that
\* is no Error, and after a body that lacks the expected fields.
C1_Witness ==
    /\ \E c \in Calls : /\ Returned(c)
                        /\ calls[c].response.kind = "reject"
                        /\ ~calls[c].response.thrown.isError
    /\ \E c \in Calls : /\ Returned(c)
                        /\ calls[c].completion.kind = "body"
                        /\ ~calls[c].result.success

\* C2: every result returned is (success, a text, error null) or
\* (no success, response "", a non-empty error string).
C2_EnvelopeTwoShapes ==
    \A c \in Calls :
        Returned(c) =>
            LET r == calls[c].result
            IN \/ r.success /\ r.response.type = "string" /\ r.error = Null
               \/ ~r.success /\ r.response = Str("") /\ r.error.type = "string" /\ r.error.str # ""

\* C3: state.status is running while the first call is in flight, is never idle
\* once a call has returned, and after a single call is completed or error as
\* the result's success says.
C3_StatusLifecycle ==
    /\ (\E c \in Calls : InFlight(c)) /\ (\A c \in Calls : ~Returned(c))
          => state.status = "running"
    /\ (\E c \in Calls : Returned(c)) => state.status # "idle"
    /\ \A c \in Calls :
          Returned(c) /\ (\A d \in Calls \ {c} : calls[d].pc = "none")
             => state.status = (IF calls[c].result.success THEN "completed" ELSE "error")

\* C6: process() retries its network call: a call returns a failure for a failed
\* network attempt only after config.maxRetries attempts.
C6_FailureOnlyAfterMaxRetries ==
    \A c \in Calls :
        Returned(c) /\ NetworkFailed(c) /\ ~calls[c].result.success
            => calls[c].fetches >= config.maxRetries

\* C7: a call with an empty prompt makes no network call and returns a failure.
C7_EmptyPromptNoNetwork ==
    \A c \in Calls :
        calls[c].pc # "none" /\ calls[c].request.prompt = ""
            => /\ calls[c].fetches = 0
               /\ Returned(c) => ~calls[c].result.success

-----------------------------------------------------------------------------
(* Claims about retry(), checked under SpecRetry *)

\* the failed invocations of the log, and its events of one kind
RECURSIVE CountFailed(_)
CountFailed(log) ==
    IF Len(log) = 0 THEN 0
    ELSE (IF log[1].ev = "op" /\ ~log[1].ok THEN 1 ELSE 0) + CountFailed(Tail(log))

RECURSIVE CountEvents(_, _)
CountEvents(log, ev) ==
    IF Len(log) = 0 THEN 0
    ELSE (IF log[1].ev = ev THEN 1 ELSE 0) + CountEvents(Tail(log), ev)

\* C4: when retry returns, the operation failed on its first k invocations and
\* succeeded on invocation k+1, k < maxRetries; retry returns that value, has
\* invoked the operation k+1 times and waited k delays, the j-th of 1000*j ms
\* between attempts j and j+1.  And retry gives up only after maxRetries failures,
\* so an operation that succeeds on invocation k+1 <= maxRetries gets that far.
C4_RetryReturnsAfterKFailures ==
    /\ rPc = "returned" =>
          LET k == CountFailed(rLog)
          IN /\ k < rMax
             /\ Len(rLog) = 2 * k + 1
             /\ \A j \in 1..k : /\ rLog[2 * j - 1].ev = "op"
                                /\ ~rLog[2 * j - 1].ok
                                /\ rLog[2 * j] = Delayed(1000 * j)
             /\ rLog[2 * k + 1].ev = "op"
             /\ rLog[2 * k + 1].ok
             /\ rValue = rLog[2 * k + 1].value
    /\ rPc = "thrown" => CountFailed(rLog) >= rMax

\* C4 witness: retry has returned after two failures and two delays.
C4_Witness == rPc = "returned" /\ CountFailed(rLog) = 2 /\ CountEvents(rLog, "delay") = 2

\* C5: with maxRetries >= 1, when retry throws the operation was invoked exactly
\* maxRetries times and failed each time, maxRetries - 1 delays were waited, none
\* after the last attempt, and the error thrown is the last attempt's.
C5_RetryThrowsLastError ==
    rPc = "thrown" /\ rMax >= 1 =>
        /\ CountEvents(rLog, "op") = rMax
        /\ CountFailed(rLog) = rMax
        /\ CountEvents(rLog, "delay") = rMax - 1
        /\ rLog[Len(rLog)].ev = "op"
        /\ rLastError = rLog[Len(rLog)].error

\* C5 witness: retry has thrown after three attempts whose first and last errors differ.
C5_Witness ==
    /\ rPc = "thrown"
    /\ rMax = MaxRetries
    /\ rLog[1].error # rLog[Len(rLog)].error

\* C25: retry with maxRetries <= 0 never invokes the operation, waits no
\* delay and throws null, not an Error; so retry returns a value only if an
\* invocation of the operation succeeded, and returns that invocation's value.
C25_NoAttemptsThrowsNull ==
    /\ (rPc # "idle" /\ rMax <= 0) =>
          /\ rPc = "thrown"
          /\ rLog = <<>>
          /\ ~rLastError.isError
          /\ rLastError.message = "null"
    /\ rPc = "returned" =>
          /\ rMax >= 1
          /\ Len(rLog) > 0
          /\ rLog[Len(rLog)] = Invoked(TRUE, rValue, NoThrow)

\* retry(operation, -1) has thrown
C25_Witness ==
    /\ rPc = "thrown"
    /\ rMax = -1
    /\ rLog = <<>>

-----------------------------------------------------------------------------
(* Claims about the payload builders, checked under SpecBuild *)

ActiveWithPriority(contexts, p) ==
    SelectSeq(contexts, LAMBDA c : c.is_active /\ c.priority = p)

\* the active fragments by ascending priority, equal priorities in list order
RECURSIVE ActiveFrom(_, _)
ActiveFrom(contexts, p) ==
    IF p > MaxPriority THEN <<>>
    ELSE ActiveWithPriority(contexts, p) \o ActiveFrom(contexts, p + 1)

ActiveByPriority(contexts) == ActiveFrom(contexts, 1)

\* each fragment's text followed by a blank line
RECURSIVE Blocks(_)
Blocks(contexts) ==
    IF Len(contexts) = 0 THEN ""
    ELSE contexts[1].context \o "\n\n" \o Blocks(Tail(contexts))

BuiltMessages == messages # <<>>
BuiltPrompt == promptParts # <<>>

\* C8: the first system message of buildMessages is the texts of exactly the
\* active fragments, in ascending priority order.
C8_SystemMessageActiveByPriority ==
    BuiltMessages =>
        messages[1] = ChatMessage("system",
                                  Join(ContextTexts(ActiveByPriority(config.contexts)), "\n"))

\* C9 as claimed: the prompt of buildPrompt is the active fragments' texts by
\* priority, each followed by a blank line, followed by "User: " + request.prompt.
C9_PromptEndsWithUserPrompt ==
    BuiltPrompt =>
        prompt = Blocks(ActiveByPriority(config.contexts)) \o "User: " \o buildReq.prompt

\* C9 as amended: the same, and a blank line follows the user prompt.
C9_PromptThenBlankLine ==
    BuiltPrompt =>
        prompt = Blocks(ActiveByPriority(config.contexts))
                    \o "User: " \o buildReq.prompt \o "\n\n"

\* C9 witness: a prompt built from a profile with an inactive fragment, two active
\* fragments listed in descending priority, and two active fragments of equal priority.
C9_Witness ==
    /\ BuiltPrompt
    /\ \E i \in 1..Len(config.contexts) : ~config.contexts[i].is_active
    /\ \E i, j \in 1..Len(config.contexts) :
          /\ i < j
          /\ config.contexts[i].is_active /\ config.contexts[j].is_active
          /\ config.contexts[i].priority > config.contexts[j].priority
    /\ \E i, j \in 1..Len(config.contexts) :
          /\ i < j
          /\ config.contexts[i].is_active /\ config.contexts[j].is_active
          /\ config.contexts[i].priority = config.contexts[j].priority

\* C10: the unit that carries request.prompt is the last unit of the payload and
\* every unit before it is a context unit (a system message; a fragment's block).
C10_PromptIsFinalUnit ==
    /\ BuiltMessages =>
          /\ messages[Len(messages)] = ChatMessage("user", buildReq.prompt)
          /\ \A i \in 1..(Len(messages) - 1) : messages[i].role = "system"
    /\ BuiltPrompt =>
          /\ promptParts[Len(promptParts)] = "User: " \o buildReq.prompt \o "\n\n"
          /\ \A i \in 1..(Len(promptParts) - 1) :
                \E j \in 1..Len(config.contexts) :
                    promptParts[i] = config.contexts[j].context \o "\n\n"

\* C10 witness: messages built from a profile with fragments and a request that
\* carries its own context.
C10_Witness ==
    /\ BuiltMessages
    /\ Len(config.contexts) > 0
    /\ Truthy(buildReq.context)
    /\ Len(messages) = 3


\* C11: a request's own context, when not empty, is a unit of its own between the
\* fragments and the user prompt; when it is absent there is no such unit.
C11_AdhocContextIsOwnUnit ==
    /\ BuiltMessages =>
          IF Truthy(buildReq.context)
          THEN /\ Len(messages) = 3
               /\ messages[2] = ChatMessage("system", buildReq.context.str)
          ELSE Len(messages) = 2
    /\ BuiltPrompt =>
          LET active == ActiveByPriority(config.contexts)
          IN IF Truthy(buildReq.context)
             THEN /\ Len(promptParts) = Len(active) + 2
                  /\ promptParts[Len(active) + 1] = buildReq.context.str \o "\n\n"
             ELSE Len(promptParts) = Len(active) + 1

\* the provider answered call c with a non-success HTTP status
HttpFailed(c) == calls[c].response.kind = "response" /\ ~calls[c].response.ok

ApiErrorPrefix == IF agentKind = "openai" THEN "OpenAI API error: " ELSE "Ollama API error: "

\* C17: for both providers, a response with a non-success HTTP status makes
\* process() return {success: false, response: "", error: E}, E non-empty and
\* carrying the status text, without throwing and without reading the body.
C17_HttpFailureEnvelope ==
    \A c \in Calls :
        HttpFailed(c) =>
            /\ calls[c].pc = "returned"
            /\ calls[c].thrown = NoThrow
            /\ calls[c].completion = NoJson
            /\ calls[c].result =
                  AgentResponse(FALSE, Str(""), Str(ApiErrorPrefix \o calls[c].response.statusText))
            /\ calls[c].result.error.str # ""

\* one call answered with a status text, another with an empty one
C17_Witness ==
    /\ HttpFailed(1) /\ calls[1].response.statusText = "Bad Request"
    /\ HttpFailed(2) /\ calls[2].response.statusText = ""
    /\ Returned(1) /\ Returned(2)

Failure(msg) == AgentResponse(FALSE, Str(""), Str(msg))

\* what call c returns, read off its own request and its own network outcome
OwnResult(c) ==
    LET f == calls[c]
    IN IF agentKind = "openai" /\ f.request.prompt = "" THEN Failure("Prompt is required")
       ELSE IF f.response.kind = "reject" THEN Failure(ErrorMessage(f.response.thrown))
       ELSE IF ~f.response.ok THEN Failure(ApiErrorPrefix \o f.response.statusText)
       ELSE IF f.completion.kind = "reject" THEN Failure(ErrorMessage(f.completion.thrown))
       ELSE IF agentKind = "openai" THEN OpenAIExtract(f, f.completion.body).result
       ELSE OllamaExtract(f, f.completion.body).result

\* C19: under any interleaving of process() calls on one agent, the result a
\* call returns depends only on that call's request and that call's network
\* outcome, never on another call's request, outcome or order of completion.
C19_ResultIsOwn ==
    \A c \in Calls : Returned(c) => calls[c].result = OwnResult(c)

\* the second call returned a success while the first, made earlier with
\* another request, is still waiting for its fetch; or both returned, with
\* different results
C19_Witness ==
    /\ Returned(2)
    /\ calls[2].result.success
    /\ calls[1].request # calls[2].request
    /\ \/ calls[1].pc = "awaitFetch"
       \/ Returned(1) /\ calls[1].result # calls[2].result

\* C20: once process() calls on an agent have completed, getState() reflects
\* one completed call only: lastResponse is that call's returned result, and
\* status and lastError are that call's outcome.
C20_StateReflectsLastCall ==
    (\E c \in Calls : Returned(c)) =>
        /\ "lastResponse" \in DOMAIN getState
        /\ \E c \in Calls :
              /\ Returned(c)
              /\ getState.lastResponse = calls[c].result
              /\ getState.status = (IF calls[c].result.success THEN "completed" ELSE "error")
              /\ ~calls[c].result.success =>
                    /\ "lastError" \in DOMAIN getState
                    /\ getState.lastError = calls[c].result.error.str

\* C21: buildMessages returns one system message for the profile's contexts,
\* then one more system message iff the request has a (non-empty) context, then
\* one user message holding request.prompt: 2 messages without an ad-hoc
\* context, 3 with, also for a profile with no fragments.
C21_MessageListShape ==
    BuiltMessages =>
        LET n == Len(messages)
        IN /\ n = (IF Truthy(buildReq.context) THEN 3 ELSE 2)
           /\ messages[1].role = "system"
           /\ messages[1].content = Join(ContextTexts(config.contexts), "\n")
           /\ Truthy(buildReq.context) =>
                 messages[2] = ChatMessage("system", buildReq.context.str)
           /\ messages[n] = ChatMessage("user", buildReq.prompt)
           /\ \A i \in 1..(n - 1) : messages[i].role = "system"

\* a profile with no fragments and a request with an ad-hoc context
C21_Witness ==
    /\ BuiltMessages
    /\ Len(config.contexts) = 0
    /\ Truthy(buildReq.context)
    /\ Len(messages) = 3
    /\ messages[1] = ChatMessage("system", "")

\* C22: on a success HTTP status OpenAIAgent.process returns success = true
\* with the first completion's text, and with "" when that text is absent from
\* the parsed body: no choices field, no first choice, no message, no content.
C22_AbsentTextIsEmptyResponse ==
    \A c \in Calls :
        (/\ agentKind = "openai"
         /\ Returned(c)
         /\ calls[c].completion.kind = "body"
         /\ ~calls[c].completion.body.isNull) =>
            LET body == calls[c].completion.body
                text == IF body.hasChoices THEN OpenAIFirstContent(body) ELSE Undefined
            IN /\ calls[c].result.success
               /\ calls[c].result.response = (IF Truthy(text) THEN text ELSE Str(""))
               /\ calls[c].result.error = Null

-----------------------------------------------------------------------------
(* Claims about createAgent and the profile, checked under Spec *)

\* C13: process() calls never change the agent's profile: the config, its
\* model fields and its contexts list (members, order, priorities, active
\* flags) are after any number of calls what they were at construction.
C13_ProcessKeepsProfile ==
    agentKind # "none" => config = givenConfig

\* every call on an agent whose contexts list is not in priority order has
\* built its payload, fetched and returned
C13_Witness ==
    /\ agentKind # "none"
    /\ SortContexts(config.contexts) # config.contexts
    /\ \A c \in Calls : Returned(c) /\ calls[c].fetches = 1

\* C14: createAgent maps each tag to its constructor: 'openai' to
\* OpenAIAgent's (the agent, or that constructor's missing-key error), 'ollama'
\* to OllamaAgent's, and any other tag to an error naming the tag, with no
\* agent constructed.
C14_FactoryMapping ==
    givenType # "" =>
        IF givenType = "openai"
        THEN \/ agentKind = "openai" /\ createError = ""
             \/ agentKind = "none" /\ createError = "OpenAI API key is required"
        ELSE IF givenType = "ollama"
        THEN agentKind = "ollama" /\ createError = ""
        ELSE /\ agentKind = "none"
             /\ createError = "Unsupported agent type: " \o givenType
             /\ config = NoConfig

C14_Witness ==
    /\ givenType = "claude"
    /\ createError = "Unsupported agent type: claude"
    /\ agentKind = "none"

\* C15 as stated: the agent createAgent('ollama', profile) returns reports
\* provider "ollama" from getConfig(), whatever provider the profile carried.
C15_ProviderAgreesWithTag ==
    agentKind = "ollama" => getConfig.model.provider = "ollama"

\* C15: the agent createAgent('ollama', profile) returns reports from
\* getConfig() the provider string the supplied profile carried; the tag is not
\* written into the config.
C15_ProviderIsProfiles ==
    agentKind = "ollama" => getConfig.model.provider = givenConfig.model.provider

C15_Witness ==
    /\ agentKind = "ollama"
    /\ givenType = "ollama"
    /\ givenConfig.model.provider = "openai"
    /\ getConfig.model.provider = "openai"

\* C16: creating the OpenAI agent from a profile with an empty credential
\* fails at construction, before any network attempt; no OpenAIAgent exists
\* with an empty apiKey.
C16_NoOpenAIAgentWithoutKey ==
    /\ agentKind = "openai" => apiKey # ""
    /\ (givenType = "openai" /\ givenConfig.model.api_key = "") =>
          /\ agentKind = "none"
          /\ createError = "OpenAI API key is required"
          /\ \A c \in Calls : calls[c].pc = "none" /\ calls[c].fetches = 0

C16_Witness ==
    /\ givenType = "openai"
    /\ givenConfig.model.api_key = ""
    /\ createError = "OpenAI API key is required"

-----------------------------------------------------------------------------
(* Claims about the getters and validateRequest, checked under SpecMethods *)

\* C12: nothing a caller writes to what getConfig() or getState() returned, at
\* any depth, changes the agent's config or state.
C12_CopiesAreDefensive ==
    agentKind # "none" => config = givenConfig /\ state = InitialState

\* C18: every implementation of validateRequest (base, OpenAI, Ollama)
\* raises an error for a request whose prompt is empty, whatever else the
\* request holds and whatever the profile.
C18_EmptyPromptRejected ==
    (validated.called /\ validated.request.prompt = "") =>
        validated.thrown = Error("Prompt is required")

\* the Ollama override was given an empty prompt with an ad-hoc context, on an
\* agent whose profile has a base URL
C18_Witness ==
    /\ validated.called
    /\ validated.impl = "ollama"
    /\ validated.request = AgentRequest("", Str("extra"))
    /\ config.model.base_url # ""
    /\ validated.thrown.isError

-----------------------------------------------------------------------------
(* Claims about the Ollama base address, checked under SpecOllama *)

NoBaseAddress == agentKind = "ollama" /\ givenConfig.model.base_url = ""

BaseUrlRequired == Error("Ollama base URL is required")

\* process() on an agent without a base address fetches from the default
\* address and never fails for the missing address
ProcessUsesDefault ==
    calls[1].pc # "none" =>
        /\ calls[1].sent.url = "http://localhost:11434/api/generate"
        /\ calls[1].pc # "rejected"
        /\ Returned(1) => calls[1].result.error # Str(BaseUrlRequired.message)

ValidatedNonEmpty ==
    validated.called /\ validated.impl = "ollama" /\ validated.request.prompt # ""

\* C23 as stated: for an OllamaAgent built from a profile with no base address,
\* process() uses http://localhost:11434, and neither validateRequest nor
\* process() rejects a request with a non-empty prompt for the missing address.
C23_BaseAddressAdvisory ==
    NoBaseAddress =>
        /\ ProcessUsesDefault
        /\ ValidatedNonEmpty => validated.thrown = NoThrow

\* C23: for such an agent process() uses http://localhost:11434 and never
\* fails for the missing address, because it does not call validateRequest;
\* validateRequest itself raises 'Ollama base URL is required' for a request
\* with a non-empty prompt.
C23_ProcessDefaultsValidateRejects ==
    NoBaseAddress =>
        /\ ProcessUsesDefault
        /\ ValidatedNonEmpty => validated.thrown = BaseUrlRequired

\* validateRequest has rejected a request that process() then sent to the
\* default address and answered
C23_Witness ==
    /\ NoBaseAddress
    /\ ValidatedNonEmpty
    /\ validated.thrown = BaseUrlRequired
    /\ Returned(1)
    /\ calls[1].request = validated.request
    /\ calls[1].result.success

-----------------------------------------------------------------------------
(* Claims about config.timeout, checked under SpecTimeout *)

\* C24: config.timeout never ends a call: a call that has issued its fetch
\* stays pending until the fetch settles (and, on an ok response, until the
\* body is parsed), and what it returns is determined by its request and its
\* network outcome alone, the same for every value of config.timeout.
C24_TimeoutNeverAborts ==
    \A c \in Calls :
        /\ (calls[c].fetches > 0 /\ calls[c].response.kind = "none") =>
              calls[c].pc = "awaitFetch"
        /\ (calls[c].response.kind = "response" /\ calls[c].response.ok
              /\ calls[c].completion.kind = "none") => calls[c].pc = "awaitJson"
        /\ Returned(c) =>
              /\ calls[c].result = OwnResult(c)
              /\ calls[c].result.error # Str("Request timed out")

\* a call on an agent with a timeout of 0 ms waited for its fetch and for the
\* body, and returned a success
C24_Witness ==
    /\ config.timeout = 0
    /\ Returned(1)
    /\ calls[1].fetches = 1
    /\ calls[1].completion.kind = "body"
    /\ calls[1].result.success

-----------------------------------------------------------------------------
(* Claims about fetchWithRetry, checked under SpecFetchRetry *)

\* the attempts made so far: those that settled and the one awaited
FwAttempts == CountEvents(fw.log, "fetch") + (IF fw.pc = "awaitFetch" THEN 1 ELSE 0)

FwAllowed == (IF fw.given > 0 THEN fw.given ELSE 0) + 1

\* what the claim says of the attempts, whatever their number: every failed
\* attempt but the last allowed is followed by a delay of 1000 ms, whether fetch
\* threw or the status was not ok; an ok response is returned at once; the error
\* raised is the last attempt's; the retries left go down by one per re-attempt
FwShape ==
    LET n == Len(fw.log)
    IN /\ \A i \in 1..n :
             /\ fw.log[i].ev = (IF i % 2 = 1 THEN "fetch" ELSE "delay")
             /\ fw.log[i].ev = "delay" => fw.log[i].ms = 1000
             /\ (fw.log[i].ev = "fetch" /\ i < n) => ~fw.log[i].ok /\ fw.log[i].error.isError
       /\ fw.retries = fw.given - (FwAttempts - 1)
       /\ fw.pc = "returned" => n > 0 /\ fw.log[n].ev = "fetch" /\ fw.log[n].ok
       /\ fw.pc = "thrown" =>
             /\ n > 0 /\ fw.log[n].ev = "fetch" /\ ~fw.log[n].ok
             /\ fw.thrown = fw.log[n].error
       /\ fw.pc = "delay" => n > 0 /\ fw.log[n].ev = "delay"
       /\ fw.pc = "awaitFetch" => n = 0 \/ fw.log[n].ev = "delay"

-----------------------------------------------------------------------------
(* Claims about AdminAuthProvider and ProtectedAdminRoute, checked under SpecAuth *)

\* C27: in every reachable state, after any interleaving of login, logout and
\* checkAdminStatus and of their completions, isAdmin equals isAuthenticated.
C27_FlagsAgree ==
    auth.isAdmin = auth.isAuthenticated

\* both flags are true after a login, while a checkAdminStatus is in flight
C27_Witness ==
    /\ auth.isAdmin /\ auth.isAuthenticated
    /\ \E o, p \in AuthOps :
          /\ ops[o] = Finished("login", "true")
          /\ ops[p].kind = "check" /\ ops[p].pc = "awaitJson"

\* C28: isAuthenticated = true implies that an adminToken is stored, under every
\* interleaving: after logout() the flags stay false even if a checkAdminStatus
\* that was in flight before the logout completes successfully afterwards.
C28_AuthenticatedHasToken ==
    auth.isAuthenticated => Truthy(adminToken)

CheckKinds == {"check", "init"}

\* C29: each step that ends a checkAdminStatus call does what the statement
\* says of its case: with no stored token, both flags false and no network call;
\* on a non-ok verification response, both flags false and the token removed;
\* when the verification request throws, false returned and error set, with the
\* flags and the token left as they were.
C29_CheckOutcomes ==
    [][\A o \in AuthOps :
          /\ (/\ FreeOp(o) /\ ~Truthy(adminToken)
              /\ ops'[o] # ops[o] /\ ops'[o].kind \in CheckKinds) =>
                /\ ops'[o] = Finished(ops'[o].kind, "false")
                /\ ~auth'.isAdmin /\ ~auth'.isAuthenticated
          /\ (/\ ops[o].kind \in CheckKinds /\ ops[o].pc = "awaitJson" /\ ~ops[o].ok
              /\ ops'[o].pc = "done") =>
                /\ ~auth'.isAdmin /\ ~auth'.isAuthenticated
                /\ adminToken' = Null
          /\ (/\ ops[o].kind \in CheckKinds /\ ops[o].pc = "awaitVerify"
              /\ ops'[o].pc = "done") =>
                /\ ops'[o].returned = "false"
                /\ auth'.error # Null
                /\ auth'.isAdmin = auth.isAdmin
                /\ auth'.isAuthenticated = auth.isAuthenticated
                /\ adminToken' = adminToken
      ]_vars

\* C30: ProtectedAdminRoute renders its children only while isAuthenticated
\* and isAdmin are both true, and a redirect to /admin/login in every other
\* state, the one before the mount effect included.
C30_ChildrenOnlyForAdmins ==
    /\ route = (IF auth.isAuthenticated /\ auth.isAdmin THEN "children"
                ELSE "Navigate:/admin/login")
    /\ ~mounted => route = "Navigate:/admin/login"

\* a token is stored and the mount-time check has its ok response, but has not
\* completed: the route is the redirect
C30_Witness ==
    /\ mounted
    /\ ops[1].kind = "init" /\ ops[1].pc = "awaitJson" /\ ops[1].ok
    /\ Truthy(adminToken)
    /\ ~auth.isAuthenticated
    /\ route = "Navigate:/admin/login"

=============================================================================
